---- MODULE Spec2Model ----
(***************************************************************************)
(* A model of src/trie/trie.py: the prefix tree Trie (a MutableMapping)    *)
(* and its node type _Entry (a dict with an optional `value` attribute).   *)
(*                                                                         *)
(* The tree of _Entry objects is flattened by path: `entries` maps the     *)
(* sequence of symbols leading from the root to an _Entry onto that        *)
(* _Entry.  No operation of the source unlinks an _Entry, so a path names  *)
(* one _Entry object for the whole run and serves as its reference.        *)
(* An _Entry is a record                                                   *)
(*    kids : the keys of the dict, in insertion order (the order           *)
(*           dict.items() iterates in),                                    *)
(*    slot : <<>> when the object has no `value` attribute, <<v>> when     *)
(*           the attribute is set to v.                                    *)
(***************************************************************************)
EXTENDS Integers, Sequences, FiniteSets, TLC

(***************************************************************************)
(* Bounds of the model.                                                    *)
(***************************************************************************)
\* Number of mutating calls (set, delete, transform) in one run.
MaxOps == 3

(***************************************************************************)
(* Inputs.                                                                 *)
(***************************************************************************)
\* Python's None (the default of transform's `default`, and a legal value).
\* It is an integer apart from the stored ones so that it compares with them.
None == -1

\* The values stored.
Values == {None, 0, 1}

\* One-character strings, and "1", which stands for the integer 1: a
\* hashable element that is not a string.
Chars == {"s", "h", "e"}
Symbols == Chars \cup {"1"}

\* The keys used: '', 'sh', 'she', 'se' and the tuple (1,).  They stand for
\* the shapes of the class docstring: 'sh' is a proper prefix of 'she' (as
\* 'she' is of 'shells'), 'sh' and 'se' branch at 's' (as 'she' and 'sea'
\* do), and 's' is a path that is never a key.
sh == <<"s", "h">>
she == <<"s", "h", "e">>
se == <<"s", "e">>
KeySet == {<<>>, sh, she, se, <<"1">>}

\* Prefixes searched for: the default '' and 's'.
Prefixes == {<<>>, <<"s">>}

\* The Python type a caller passes a key or prefix as: a str when every
\* element is a character, a tuple otherwise.
KeyType(key) == IF \A i \in 1 .. Len(key) : key[i] \in Chars THEN "str" ELSE "tuple"

\* The value selectors passed to transform:
\*   inc   = lambda old: old + 1     (TypeError when old is None)
\*   ident = lambda old: old
\* and the (value_selector, default) pairs it is called with.
Selectors == {<<"inc", 0>>, <<"ident", 0>>, <<"inc", None>>}

VARIABLES
    entries,    \* self._root and the _Entry objects below it, by path
    length,     \* self._length
    gen,        \* the generator object returned by the latest items()/keys()
    last,       \* the latest completed call and its outcome
    nops        \* number of mutating calls made so far

vars == <<entries, length, gen, last, nops>>

Range(s) == {s[i] : i \in 1 .. Len(s)}

(***************************************************************************)
(* _Entry                                                                  *)
(***************************************************************************)
\* _Entry(): an empty dict without a `value` attribute.
NewEntry == [kids |-> <<>>, slot |-> <<>>]

\* A plausible slip: testing the value against None instead of testing the
\* presence of the attribute.
has_value_not_none(entry) == entry.slot /= <<>> /\ entry.slot[1] /= None

\* _Entry.has_value: hasattr(self, 'value').
has_value(entry) == entry.slot /= <<>>

(***************************************************************************)
(* Trie._find                                                              *)
(***************************************************************************)
\* The loop of _find from the _Entry at `path` over the remaining symbols.
\* Result: the tree (grown when create), the _Entry reached, the exception.
RECURSIVE find_loop(_, _, _, _)
find_loop(ents, path, rest, create) ==
    IF rest = <<>>
    THEN [ents |-> ents, entry |-> path, exc |-> ""]
    ELSE LET char == Head(rest)
             child == Append(path, char)
         IN  IF char \in Range(ents[path].kids)
             THEN find_loop(ents, child, Tail(rest), create)
             ELSE IF create
             THEN find_loop((child :> NewEntry) @@
                            [ents EXCEPT ![path].kids = Append(@, char)],
                            child, Tail(rest), create)
             ELSE [ents |-> ents, entry |-> <<>>, exc |-> "KeyError"]

\* A plausible slip: refusing the empty key in a lookup.
find_rejecting_empty(ents, key, create) ==
    IF key = <<>> /\ ~create
    THEN [ents |-> ents, entry |-> <<>>, exc |-> "KeyError"]
    ELSE find_loop(ents, <<>>, key, create)

find(ents, key, create) == find_loop(ents, <<>>, key, create)

(***************************************************************************)
(* Trie._set_entry                                                         *)
(***************************************************************************)
\* A plausible slip: counting every write, also one that overwrites.
set_entry_always_counts(ents, n, entry, value) ==
    [ents |-> [ents EXCEPT ![entry].slot = <<value>>], len |-> n + 1]

\* A plausible slip: writing the value only when the slot was empty.
set_entry_no_overwrite(ents, n, entry, value) ==
    IF ~has_value(ents[entry])
    THEN [ents |-> [ents EXCEPT ![entry].slot = <<value>>], len |-> n + 1]
    ELSE [ents |-> ents, len |-> n]

set_entry(ents, n, entry, value) ==
    [ents |-> [ents EXCEPT ![entry].slot = <<value>>],
     len  |-> IF ~has_value(ents[entry]) THEN n + 1 ELSE n]

(***************************************************************************)
(* Trie.__getitem__, MutableMapping.__contains__, Trie.__len__             *)
(***************************************************************************)
\* A plausible slip: looking the key up with create=True.
getitem_creating(ents, key) ==
    LET f == find(ents, key, TRUE)
    IN  IF has_value(f.ents[f.entry])
        THEN [ents |-> f.ents, exc |-> "", ret |-> f.ents[f.entry].slot]
        ELSE [ents |-> f.ents, exc |-> "KeyError", ret |-> <<>>]

\* Result: the tree afterwards, the exception raised, the value returned.
getitem(ents, key) ==
    LET f == find(ents, key, FALSE)
    IN  IF f.exc /= ""
        THEN [ents |-> f.ents, exc |-> f.exc, ret |-> <<>>]
        ELSE IF has_value(f.ents[f.entry])
        THEN [ents |-> f.ents, exc |-> "", ret |-> f.ents[f.entry].slot]
        ELSE [ents |-> f.ents, exc |-> "KeyError", ret |-> <<>>]

\* Mapping.__contains__ (inherited): self[key] succeeds.
contains(ents, key) == getitem(ents, key).exc = ""

\* Trie.__len__.
len(n) == n

(***************************************************************************)
(* Trie.__delitem__                                                        *)
(***************************************************************************)
\* A plausible slip: forgetting to decrement the length.
delitem_no_decrement(ents, n, key) ==
    LET f == find(ents, key, FALSE)
    IN  IF f.exc = "" /\ has_value(f.ents[f.entry])
        THEN [ents |-> [f.ents EXCEPT ![f.entry].slot = <<>>], len |-> n, exc |-> ""]
        ELSE [ents |-> f.ents, len |-> n, exc |-> "KeyError"]

\* A plausible slip: looking the key up with create=True.
delitem_creating(ents, n, key) ==
    LET f == find(ents, key, TRUE)
    IN  IF has_value(f.ents[f.entry])
        THEN [ents |-> [f.ents EXCEPT ![f.entry].slot = <<>>], len |-> n - 1, exc |-> ""]
        ELSE [ents |-> f.ents, len |-> n, exc |-> "KeyError"]

\* A plausible slip: removing the key together with the keys that extend it.
delitem_whole_subtree(ents, n, key) ==
    LET f == find(ents, key, FALSE)
    IN  IF f.exc = "" /\ has_value(f.ents[f.entry])
        THEN [ents |-> [p \in DOMAIN f.ents |->
                           IF Len(p) >= Len(key) /\ SubSeq(p, 1, Len(key)) = key
                           THEN [f.ents[p] EXCEPT !.slot = <<>>]
                           ELSE f.ents[p]],
              len |-> n - 1, exc |-> ""]
        ELSE [ents |-> f.ents, len |-> n, exc |-> "KeyError"]

\* A plausible slip: unlinking the entry when the delete leaves it without
\* value and without children.
delitem_pruning(ents, n, key) ==
    LET f == find(ents, key, FALSE)
    IN  IF f.exc = "" /\ has_value(f.ents[f.entry])
        THEN IF key /= <<>> /\ f.ents[f.entry].kids = <<>>
             THEN LET parent == SubSeq(key, 1, Len(key) - 1)
                      IsOther(char) == char /= key[Len(key)]
                  IN  [ents |-> [p \in DOMAIN f.ents \ {key} |->
                                    IF p = parent
                                    THEN [f.ents[p] EXCEPT !.kids = SelectSeq(@, IsOther)]
                                    ELSE f.ents[p]],
                       len |-> n - 1, exc |-> ""]
             ELSE [ents |-> [f.ents EXCEPT ![f.entry].slot = <<>>], len |-> n - 1, exc |-> ""]
        ELSE [ents |-> f.ents, len |-> n, exc |-> "KeyError"]

delitem(ents, n, key) ==
    LET f == find(ents, key, FALSE)
    IN  IF f.exc /= ""
        THEN [ents |-> f.ents, len |-> n, exc |-> f.exc]
        ELSE IF has_value(f.ents[f.entry])
        THEN [ents |-> [f.ents EXCEPT ![f.entry].slot = <<>>], len |-> n - 1, exc |-> ""]
        ELSE [ents |-> f.ents, len |-> n, exc |-> "KeyError"]

(***************************************************************************)
(* Trie.__setitem__                                                        *)
(***************************************************************************)
setitem(ents, n, key, value) ==
    LET f == find(ents, key, TRUE)
    IN  set_entry(f.ents, n, f.entry, value)

(***************************************************************************)
(* Trie.transform                                                          *)
(***************************************************************************)
\* value_selector(old): the value returned, or the exception raised.
Apply(sel, old) ==
    IF sel = "inc"
    THEN IF old = None
         THEN [exc |-> "TypeError", val |-> None]
         ELSE [exc |-> "", val |-> old + 1]
    ELSE [exc |-> "", val |-> old]

\* A plausible slip: passing the default whatever the entry holds.
transform_default_only(ents, n, key, sel, default) ==
    LET f == find(ents, key, TRUE)
        r == Apply(sel, default)
    IN  IF r.exc /= ""
        THEN [ents |-> f.ents, len |-> n, exc |-> r.exc]
        ELSE LET s == set_entry(f.ents, n, f.entry, r.val)
             IN  [ents |-> s.ents, len |-> s.len, exc |-> ""]

\* The argument transform passes to value_selector.
old_value(ents, entry, default) ==
    IF has_value(ents[entry]) THEN ents[entry].slot[1] ELSE default

\* A plausible slip: storing the default in an empty entry before the
\* selector is called.
transform_store_default_first(ents, n, key, sel, default) ==
    LET f == find(ents, key, TRUE)
        d == IF has_value(f.ents[f.entry])
             THEN [ents |-> f.ents, len |-> n]
             ELSE set_entry(f.ents, n, f.entry, default)
        r == Apply(sel, d.ents[f.entry].slot[1])
    IN  IF r.exc /= ""
        THEN [ents |-> d.ents, len |-> d.len, exc |-> r.exc]
        ELSE LET s == set_entry(d.ents, d.len, f.entry, r.val)
             IN  [ents |-> s.ents, len |-> s.len, exc |-> ""]

transform(ents, n, key, sel, default) ==
    LET f == find(ents, key, TRUE)
        r == Apply(sel, old_value(f.ents, f.entry, default))
    IN  IF r.exc /= ""
        THEN [ents |-> f.ents, len |-> n, exc |-> r.exc]
        ELSE LET s == set_entry(f.ents, n, f.entry, r.val)
             IN  [ents |-> s.ents, len |-> s.len, exc |-> ""]

(***************************************************************************)
(* Trie.items, Trie.keys: the generator                                    *)
(*                                                                         *)
(* gen.st is "none" before any call of items()/keys(), "created" for a     *)
(* generator whose body has not started, "suspended" at the yield, and     *)
(* "finished" once the body has returned or raised.                        *)
(***************************************************************************)
NoFrame == [prefix |-> <<>>, entry |-> <<>>]

NoGen == [st |-> "none", prefix |-> <<>>, stack |-> <<>>,
          cur |-> NoFrame, out |-> <<>>, dirty |-> FALSE, exc |-> ""]

\* What the consumer sees when the generator body executes
\* `raise StopIteration`: interpreters that implement PEP 479 (Python 3.7
\* and later) turn it into RuntimeError, earlier ones end the iteration.
RaiseStopIterationOutcomes == {"StopIteration", "RuntimeError"}

\* current_prefix + char: defined for a str and a one-character str only.
ConcatOk(ptype, char) == ptype = "str" /\ char \in Chars

\* for char, children in entry.items(): stack.append((current_prefix + char, children))
\* A plausible slip: pushing the child under its parent's prefix.
RECURSIVE push_children_same_prefix(_, _, _, _)
push_children_same_prefix(stack, frame, kids, ptype) ==
    IF kids = <<>>
    THEN [stack |-> stack, exc |-> ""]
    ELSE IF ~ConcatOk(ptype, Head(kids))
    THEN [stack |-> stack, exc |-> "TypeError"]
    ELSE push_children_same_prefix(
             Append(stack, [prefix |-> frame.prefix,
                            entry  |-> Append(frame.entry, Head(kids))]),
             frame, Tail(kids), ptype)

RECURSIVE push_children(_, _, _, _)
push_children(stack, frame, kids, ptype) ==
    IF kids = <<>>
    THEN [stack |-> stack, exc |-> ""]
    ELSE IF ~ConcatOk(ptype, Head(kids))
    THEN [stack |-> stack, exc |-> "TypeError"]
    ELSE push_children(Append(stack, [prefix |-> Append(frame.prefix, Head(kids)),
                                      entry  |-> Append(frame.entry, Head(kids))]),
                       frame, Tail(kids), ptype)

\* A plausible slip: taking the oldest element of the work list (a queue)
\* instead of the newest.
RECURSIVE items_loop_fifo(_, _, _)
items_loop_fifo(ents, stack, ptype) ==
    IF stack = <<>>
    THEN [st |-> "finished", stack |-> <<>>, cur |-> NoFrame, exc |-> "StopIteration"]
    ELSE LET frame == Head(stack)
             rest  == Tail(stack)
         IN  IF has_value(ents[frame.entry])
             THEN [st |-> "suspended", stack |-> rest, cur |-> frame, exc |-> ""]
             ELSE LET p == push_children(rest, frame, ents[frame.entry].kids, ptype)
                  IN  IF p.exc /= ""
                      THEN [st |-> "finished", stack |-> p.stack, cur |-> NoFrame,
                            exc |-> p.exc]
                      ELSE items_loop_fifo(ents, p.stack, ptype)

\* A plausible slip: pushing the children of an entry before yielding it.
RECURSIVE items_loop_push_first(_, _, _)
items_loop_push_first(ents, stack, ptype) ==
    IF stack = <<>>
    THEN [st |-> "finished", stack |-> <<>>, cur |-> NoFrame, exc |-> "StopIteration"]
    ELSE LET frame == stack[Len(stack)]
             rest  == SubSeq(stack, 1, Len(stack) - 1)
             p     == push_children(rest, frame, ents[frame.entry].kids, ptype)
         IN  IF p.exc /= ""
             THEN [st |-> "finished", stack |-> p.stack, cur |-> NoFrame, exc |-> p.exc]
             ELSE IF has_value(ents[frame.entry])
             THEN [st |-> "suspended", stack |-> p.stack, cur |-> frame, exc |-> ""]
             ELSE items_loop_push_first(ents, p.stack, ptype)

\* The while loop of items, run until the next yield, the end of the body
\* or an exception.
RECURSIVE items_loop(_, _, _)
items_loop(ents, stack, ptype) ==
    IF stack = <<>>
    THEN [st |-> "finished", stack |-> <<>>, cur |-> NoFrame, exc |-> "StopIteration"]
    ELSE LET frame == stack[Len(stack)]
             rest  == SubSeq(stack, 1, Len(stack) - 1)
         IN  IF has_value(ents[frame.entry])
             THEN [st |-> "suspended", stack |-> rest, cur |-> frame, exc |-> ""]
             ELSE LET p == push_children(rest, frame, ents[frame.entry].kids, ptype)
                  IN  IF p.exc /= ""
                      THEN [st |-> "finished", stack |-> p.stack, cur |-> NoFrame,
                            exc |-> p.exc]
                      ELSE items_loop(ents, p.stack, ptype)

\* One next() on the generator g: the body runs from where it stands.
\* `outcome` is the consumer's view of a `raise StopIteration` in the body.
items_next(ents, g, outcome) ==
    LET ptype == KeyType(g.prefix)
    IN  IF g.st = "created"
        THEN LET f == find(ents, g.prefix, FALSE)
             IN  IF f.exc /= ""
                 THEN [st |-> "finished", stack |-> <<>>, cur |-> NoFrame, exc |-> outcome]
                 ELSE items_loop(ents, <<[prefix |-> g.prefix, entry |-> f.entry]>>, ptype)
        ELSE IF g.st = "suspended"
        THEN LET p == push_children(g.stack, g.cur, ents[g.cur.entry].kids, ptype)
             IN  IF p.exc /= ""
                 THEN [st |-> "finished", stack |-> p.stack, cur |-> NoFrame, exc |-> p.exc]
                 ELSE items_loop(ents, p.stack, ptype)
        ELSE [st |-> "finished", stack |-> g.stack, cur |-> NoFrame, exc |-> "StopIteration"]

\* list(trie.items(prefix)): next() until the generator finishes.  Result:
\* the pairs yielded and the exception that ended the iteration.
RECURSIVE drain(_, _, _)
drain(ents, g, outcome) ==
    LET r == items_next(ents, g, outcome)
    IN  IF r.st = "finished"
        THEN [out |-> g.out, exc |-> r.exc]
        ELSE drain(ents,
                   [g EXCEPT !.st = r.st, !.stack = r.stack, !.cur = r.cur,
                             !.out = Append(@, [key |-> r.cur.prefix,
                                                val |-> ents[r.cur.entry].slot[1]])],
                   outcome)

items(ents, prefix, outcome) ==
    drain(ents, [NoGen EXCEPT !.st = "created", !.prefix = prefix], outcome)

\* Trie.keys: the generator expression over items(prefix) hands on the key
\* of each pair, and whatever items raises.
keys(out) == [i \in 1 .. Len(out) |-> out[i].key]

(***************************************************************************)
(* The calls a client makes.  Each action is one call run to completion.   *)
(* The client holds one generator at a time: items() replaces it, next()   *)
(* advances it, and set, delete and transform may be called while it is    *)
(* live.  Lookups are made between enumerations.  At most MaxOps mutating  *)
(* calls are made in a run.                                                *)
(***************************************************************************)
\* What a key is in the tree: "absent" when some symbol of it has no edge,
\* "path" when its _Entry exists without a value, "mapped" when it has one.
Status(ents, key) ==
    IF key \notin DOMAIN ents THEN "absent"
    ELSE IF ents[key].slot = <<>> THEN "path" ELSE "mapped"

\* The record of a call: its arguments (key, arg, sel), its outcome (the
\* exception raised or "", the value returned), what the key was when the
\* call was made (pre) and, for a set, whether it repeats the call before it.
Call(op, key, arg, sel, exc, ret) ==
    [op |-> op, key |-> key, arg |-> arg, sel |-> sel, exc |-> exc, ret |-> ret,
     pre |-> Status(entries, key),
     again |-> op = "set" /\ last.op = op /\ last.key = key /\ last.arg = arg]

Live(g) == g.st \in {"created", "suspended"}

\* A mutating call marks a live generator as having seen the trie change;
\* a generator that has finished is dropped by the client's next call.
Touched(g) == IF Live(g) THEN [g EXCEPT !.dirty = TRUE] ELSE NoGen

Init ==
    /\ entries = (<<>> :> NewEntry)
    /\ length = 0
    /\ gen = NoGen
    /\ last = [op |-> "init", key |-> <<>>, arg |-> <<>>, sel |-> "", exc |-> "",
               ret |-> <<>>, pre |-> "path", again |-> FALSE]
    /\ nops = 0

\* trie[key], between two enumerations
GetItem(key) ==
    /\ ~Live(gen)
    /\ LET r == getitem(entries, key)
       IN  /\ entries' = r.ents
           /\ last' = Call("get", key, <<>>, "", r.exc, r.ret)
    /\ gen' = NoGen
    /\ UNCHANGED <<length, nops>>

\* trie[key] = value
SetItem(key, value) ==
    /\ nops < MaxOps
    /\ LET s == setitem(entries, length, key, value)
       IN  /\ entries' = s.ents
           /\ length' = s.len
    /\ last' = Call("set", key, <<value>>, "", "", <<>>)
    /\ gen' = Touched(gen)
    /\ nops' = nops + 1

\* del trie[key]
DelItem(key) ==
    /\ nops < MaxOps
    /\ LET d == delitem(entries, length, key)
       IN  /\ entries' = d.ents
           /\ length' = d.len
           /\ last' = Call("del", key, <<>>, "", d.exc, <<>>)
    /\ gen' = Touched(gen)
    /\ nops' = nops + 1

\* trie.transform(key, sel, default); the value written stays within Values.
Transform(key, sel, default) ==
    /\ nops < MaxOps
    /\ LET t == transform(entries, length, key, sel, default)
       IN  /\ t.exc = "" => getitem(t.ents, key).ret[1] \in Values
           /\ entries' = t.ents
           /\ length' = t.len
           /\ last' = Call("transform", key, <<default>>, sel, t.exc, <<>>)
    /\ gen' = Touched(gen)
    /\ nops' = nops + 1

\* trie.items(prefix): a new generator, not yet started.
Items(prefix) ==
    /\ gen' = [NoGen EXCEPT !.st = "created", !.prefix = prefix]
    /\ last' = Call("items", prefix, <<>>, "", "", <<>>)
    /\ UNCHANGED <<entries, length, nops>>

\* next(generator)
NextItem(outcome) ==
    /\ Live(gen)
    /\ LET r == items_next(entries, gen, outcome)
           yielded == IF r.st = "suspended"
                      THEN <<[key |-> r.cur.prefix, val |-> entries[r.cur.entry].slot[1]]>>
                      ELSE <<>>
       IN  /\ gen' = [gen EXCEPT !.st = r.st, !.stack = r.stack, !.cur = r.cur,
                                 !.out = @ \o yielded,
                                 !.exc = r.exc]
           /\ last' = [Call("next",
                                IF r.st = "suspended" THEN r.cur.prefix ELSE <<>>,
                                <<>>, "", r.exc,
                                IF r.st = "suspended"
                                THEN entries[r.cur.entry].slot ELSE <<>>)
                           EXCEPT !.pre = Status(entries, gen.prefix)]
    /\ UNCHANGED <<entries, length, nops>>

Next ==
    \/ \E key \in KeySet : GetItem(key)
    \/ \E key \in KeySet, value \in Values : SetItem(key, value)
    \/ \E key \in KeySet : DelItem(key)
    \/ \E key \in KeySet, s \in Selectors : Transform(key, s[1], s[2])
    \/ \E prefix \in Prefixes : Items(prefix)
    \/ \E outcome \in RaiseStopIterationOutcomes : NextItem(outcome)

Spec == Init /\ [][Next]_vars

(***************************************************************************)
(* Properties.                                                             *)
(***************************************************************************)
\* The keys that hold a value, and the outcome of a lookup.
Mapped(ents) == {p \in DOMAIN ents : ents[p].slot /= <<>>}
Found(value) == [exc |-> "", ret |-> <<value>>]
Lookup(ents, key) == LET r == getitem(ents, key) IN [exc |-> r.exc, ret |-> r.ret]
KeyNotFound(ents, key) == Lookup(ents, key) = [exc |-> "KeyError", ret |-> <<>>]

\* C1: after any sequence of completed set, delete and transform calls on
\* an initially empty trie (failed deletes and re-sets included), len() is
\* the number of entries reachable from the root whose value is set.
SizeIsNumberOfMappedKeys == len(length) = Cardinality(Mapped(entries))

\* A failed delete after three calls that left one key mapped and value-less
\* entries in the tree.
SizeWitness ==
    /\ last.op = "del" /\ last.exc = "KeyError"
    /\ nops = 3 /\ length = 1
    /\ Cardinality(DOMAIN entries) > 2

\* C2: after set(k, v), get(k) returns v and contains(k) is true, whether k
\* was absent, mapped to another value or only an internal path before.
SetThenGet ==
    [][last'.op = "set" =>
          /\ Lookup(entries', last'.key) = Found(last'.arg[1])
          /\ contains(entries', last'.key)]_vars

\* A set has overwritten another value of a mapped key.
SetWitness ==
    /\ last.op = "set" /\ last.pre = "mapped" /\ ~last.again
    /\ Lookup(entries, last.key) = Found(last.arg[1])

\* C3: delete(k) of a mapped key k succeeds; afterwards contains(k) is
\* false, get(k) fails with KeyNotFound and len() is one less.
DeleteOfMappedKey ==
    [][last'.op = "del" /\ last'.pre = "mapped" =>
          /\ last'.exc = ""
          /\ ~contains(entries', last'.key)
          /\ KeyNotFound(entries', last'.key)
          /\ len(length') = len(length) - 1]_vars

\* A mapped key has been deleted while another key stays mapped.
DeleteWitness ==
    /\ last.op = "del" /\ last.pre = "mapped" /\ last.exc = ""
    /\ length = 1

\* C4: delete(k) of a key without a value fails with KeyNotFound, both when
\* a symbol of k has no edge and when k's entry exists without a value, and
\* leaves the tree, every value and len() as they were.
DeleteOfUnmappedKey ==
    [][last'.op = "del" /\ last'.pre /= "mapped" =>
          /\ last'.exc = "KeyError"
          /\ entries' = entries
          /\ length' = length]_vars

\* A delete has failed on a key whose entry exists without a value.
DeleteFailsWitness ==
    /\ last.op = "del" /\ last.pre = "path" /\ last.exc = "KeyError"
    /\ last.key /= <<>>

\* C5: get(k) returns the stored value iff k's entry exists and has a value,
\* fails with KeyNotFound otherwise, and in every case creates no entry and
\* leaves every value and len() unchanged.
GetIsPure ==
    [][last'.op = "get" =>
          /\ last'.pre = "mapped" =>
                 /\ last'.exc = ""
                 /\ last'.ret = entries[last'.key].slot
          /\ last'.pre /= "mapped" =>
                 /\ last'.exc = "KeyError"
                 /\ last'.ret = <<>>
          /\ entries' = entries
          /\ length' = length]_vars

\* A get has failed on a key whose entry exists without a value.
GetFailsWitness ==
    /\ last.op = "get" /\ last.pre = "path" /\ last.exc = "KeyError"
    /\ last.key /= <<>>

\* p is a prefix of key.
BeginsWith(key, p) == Len(p) <= Len(key) /\ SubSeq(key, 1, Len(p)) = p

\* The pairs (k, v) with k mapped to v and k beginning with prefix.
PairsUnder(ents, prefix) ==
    {[key |-> k, val |-> ents[k].slot[1]] : k \in {m \in Mapped(ents) : BeginsWith(m, prefix)}}

\* The generator has run to its end on a trie left alone since items().
Consumed == gen.st = "finished" /\ ~gen.dirty

\* C6: items(prefix) and keys(prefix) with a prefix that is not a path in
\* the tree produce an empty sequence when consumed, and never an error.
UnmatchedPrefixYieldsNothing ==
    (last.op = "next" /\ last.pre = "absent") =>
        /\ last.exc = "StopIteration"
        /\ gen.out = <<>>
        /\ keys(gen.out) = <<>>

\* C7: for every prefix that is a path in the tree, items(prefix) consumed
\* to exhaustion on an unmodified trie yields exactly the pairs (k, v) with
\* k mapped to v and k beginning with the prefix, each once and with the
\* full key; keys(prefix) yields exactly their keys.
ItemsYieldExactlyThePrefixed ==
    (Consumed /\ gen.prefix \in DOMAIN entries) =>
        /\ gen.exc = "StopIteration"
        /\ Range(gen.out) = PairsUnder(entries, gen.prefix)
        /\ Len(gen.out) = Cardinality(PairsUnder(entries, gen.prefix))
        /\ Range(keys(gen.out)) = {m \in Mapped(entries) : BeginsWith(m, gen.prefix)}

\* What holds of C7 on a trie whose keys are strings: with no element other
\* than characters, current_prefix + char is defined at every entry.
ItemsYieldExactlyOnStrKeys ==
    (Consumed /\ gen.prefix \in DOMAIN entries
             /\ \A p \in DOMAIN entries : KeyType(p) = "str") =>
        /\ gen.exc = "StopIteration"
        /\ Range(gen.out) = PairsUnder(entries, gen.prefix)
        /\ Len(gen.out) = Cardinality(PairsUnder(entries, gen.prefix))
        /\ Range(keys(gen.out)) = {m \in Mapped(entries) : BeginsWith(m, gen.prefix)}

\* C8: transform(key, updater, default) with an updater that returns leaves
\* get(key) = updater(old), old being the key's value if it has one and
\* default otherwise; len() grows by one if the key had no value, else stays.
TransformWritesSelectorOfOld ==
    [][last'.op = "transform" /\ last'.exc = "" =>
          LET key == last'.key
              old == IF last'.pre = "mapped" THEN entries[key].slot[1] ELSE last'.arg[1]
          IN  /\ Lookup(entries', key) = Found(Apply(last'.sel, old).val)
              /\ len(length') = len(length) + (IF last'.pre = "mapped" THEN 0 ELSE 1)]_vars

\* A transform of a mapped key has written something else than the
\* selector's value at the default.
TransformWitness ==
    /\ last.op = "transform" /\ last.pre = "mapped" /\ last.exc = ""
    /\ Lookup(entries, last.key) /= Found(Apply(last.sel, last.arg[1]).val)

\* C9: set is idempotent: after set(k, v); set(k, v) the state is the state
\* after the first set(k, v): get(k) = v, the same tree, the same len().
SetIsIdempotent ==
    [][last'.op = "set" /\ last'.again =>
          /\ entries' = entries
          /\ length' = length
          /\ Lookup(entries', last'.key) = Found(last'.arg[1])]_vars

\* The same set has been made twice in a row, below the root.
SetAgainWitness ==
    /\ last.op = "set" /\ last.again
    /\ last.key /= <<>>

\* What holds of C10 whatever the keys are: the lookups, the count and
\* transform treat a stored None as a value, and an enumeration that runs to
\* its end yields the keys mapped to None.
NoneIsAValue ==
    /\ [](Consumed /\ gen.exc = "StopIteration" =>
             \A k \in Mapped(entries) :
                 BeginsWith(k, gen.prefix) /\ entries[k].slot = <<None>> =>
                     /\ [key |-> k, val |-> None] \in Range(gen.out)
                     /\ k \in Range(keys(gen.out)))
    /\ [][/\ last'.op = "set" /\ last'.arg = <<None>> =>
                /\ contains(entries', last'.key)
                /\ Lookup(entries', last'.key) = Found(None)
                /\ len(length') = Cardinality(Mapped(entries'))
                /\ last'.key \in Mapped(entries')
          /\ last'.op = "transform" /\ last'.pre = "mapped"
                /\ entries[last'.key].slot = <<None>> =>
                /\ last'.exc = Apply(last'.sel, None).exc
                /\ last'.exc = "" =>
                       Lookup(entries', last'.key) = Found(Apply(last'.sel, None).val)
                /\ len(length') = len(length)]_vars

\* C10: a stored None differs from an unset value: after set(k, None),
\* contains(k) is true, get(k) returns None, k is counted by len() and
\* enumerated by keys()/items(); transform on such a key passes None to the
\* updater, not the default, and leaves len() unchanged.
NoneIsAValueAndEnumerated ==
    /\ NoneIsAValue
    /\ [](Consumed /\ gen.prefix \in DOMAIN entries =>
             \A k \in Mapped(entries) :
                 BeginsWith(k, gen.prefix) /\ entries[k].slot = <<None>> =>
                     /\ [key |-> k, val |-> None] \in Range(gen.out)
                     /\ k \in Range(keys(gen.out)))

\* A transform with default 0 has handed the stored None to the identity
\* selector, which wrote it back.
NoneWitness ==
    /\ last.op = "transform" /\ last.pre = "mapped" /\ last.exc = ""
    /\ last.sel = "ident" /\ last.arg = <<0>>
    /\ Lookup(entries, last.key) = Found(None)

\* The value slot a key's path leads to; empty when the path does not exist.
Slot(ents, key) == IF key \in DOMAIN ents THEN ents[key].slot ELSE <<>>

\* C11: set, delete and transform on a key k leave the mapping of every
\* other key unchanged (same presence, same value), also when the other key
\* is a proper prefix or a proper extension of k.  In every state a lookup
\* gives what the key's slot holds, and a call leaves the slot of every
\* other key as it was.
OtherKeysUntouched ==
    /\ [](\A k \in KeySet \cup DOMAIN entries :
              Lookup(entries, k) = IF Slot(entries, k) = <<>>
                                   THEN [exc |-> "KeyError", ret |-> <<>>]
                                   ELSE Found(Slot(entries, k)[1]))
    /\ [][last'.op \in {"set", "del", "transform"} =>
              \A k \in (DOMAIN entries' \cup KeySet) \ {last'.key} :
                  Slot(entries', k) = Slot(entries, k)]_vars

\* 'sh' has been deleted while its extension 'she' stays mapped.
OtherKeysWitness ==
    /\ last.op = "del" /\ last.exc = "" /\ last.key = sh
    /\ contains(entries, she)

\* The entries of the subtree at `node` in last-in-first-out depth-first
\* order: the node, then the subtrees of its children, the child that comes
\* later in the node's iteration order first.
RECURSIVE VisitOrder(_, _)
RECURSIVE VisitChildren(_, _, _)
VisitOrder(ents, node) == <<node>> \o VisitChildren(ents, node, Len(ents[node].kids))
VisitChildren(ents, node, i) ==
    IF i = 0 THEN <<>>
    ELSE VisitOrder(ents, Append(node, ents[node].kids[i])) \o VisitChildren(ents, node, i - 1)

\* The mapped keys among them, in that order.
DepthFirstKeys(ents, node) ==
    LET IsMapped(p) == ents[p].slot /= <<>>
    IN  SelectSeq(VisitOrder(ents, node), IsMapped)

\* The position of a symbol among the children of an entry.
ChildIndex(ents, node, char) == CHOOSE i \in 1 .. Len(ents[node].kids) : ents[node].kids[i] = char

\* The length of the longest common prefix of two keys.
CommonLen(a, b) ==
    CHOOSE n \in 0 .. Len(a) :
        /\ n <= Len(b)
        /\ SubSeq(a, 1, n) = SubSeq(b, 1, n)
        /\ (n < Len(a) /\ n < Len(b)) => a[n + 1] /= b[n + 1]

\* C12: on an unmodified trie the enumeration order is the LIFO depth-first
\* order: a key comes before every key of its subtree, the subtree of a
\* later child comes before the subtree of an earlier child of the same
\* entry, and the sequence yielded is fixed by the tree and the prefix.
EnumerationOrderIsDepthFirst ==
    (gen.st \in {"suspended", "finished"} /\ ~gen.dirty /\ gen.prefix \in DOMAIN entries) =>
        LET ks == keys(gen.out)
            expected == DepthFirstKeys(entries, gen.prefix)
        IN  /\ Len(ks) <= Len(expected)
            /\ ks = SubSeq(expected, 1, Len(ks))
            /\ gen.exc = "StopIteration" => ks = expected
            /\ \A i, j \in 1 .. Len(ks) : i < j =>
                   LET n == CommonLen(ks[i], ks[j])
                   IN  /\ n < Len(ks[j])
                       /\ n < Len(ks[i]) =>
                              ChildIndex(entries, SubSeq(ks[i], 1, n), ks[i][n + 1])
                                  > ChildIndex(entries, SubSeq(ks[i], 1, n), ks[j][n + 1])

\* 'sh', 'she' and 'se' enumerated from 's', whose later child 'e' comes
\* first.
EnumerationOrderWitness ==
    /\ Consumed /\ gen.exc = "StopIteration" /\ gen.prefix = <<"s">>
    /\ gen.prefix \in DOMAIN entries
    /\ entries[<<"s">>].kids = <<"h", "e">>
    /\ keys(gen.out) = <<se, sh, she>>

\* The entries still to be popped by a suspended generator: those on the
\* work list, everything below them, and everything below the entry at
\* which the generator stands.
Pending(ents, g) ==
    {p \in DOMAIN ents :
        \/ \E i \in 1 .. Len(g.stack) : BeginsWith(p, g.stack[i].entry)
        \/ BeginsWith(p, g.cur.entry) /\ p /= g.cur.entry}

\* C13: enumeration is lazy and resumable: a request pops entries only
\* until the first one with a value and yields it before its children are
\* pushed; the work list is carried over to the next request and never
\* seeded again; after n elements no entry beyond the n-th yielded one has
\* been popped.
EnumerationIsLazy ==
    gen.st = "suspended" =>
        /\ gen.out /= <<>>
        /\ gen.out[Len(gen.out)].key = gen.cur.prefix
        /\ \A i \in 1 .. Len(gen.stack) : ~BeginsWith(gen.stack[i].entry, gen.cur.entry)
        /\ (~gen.dirty /\ gen.prefix \in DOMAIN entries) =>
               LET order == VisitOrder(entries, gen.prefix)
                   at == CHOOSE i \in 1 .. Len(order) : order[i] = gen.cur.entry
                   IsMapped(p) == entries[p].slot /= <<>>
               IN  /\ Pending(entries, gen) = {order[j] : j \in (at + 1) .. Len(order)}
                   /\ keys(gen.out) = SelectSeq(SubSeq(order, 1, at), IsMapped)

\* The consumer has taken one element, 'sh'; its child 'she' is not pushed
\* and 'se' waits on the work list.
EnumerationLazyWitness ==
    /\ gen.st = "suspended" /\ ~gen.dirty /\ gen.prefix = <<"s">>
    /\ keys(gen.out) = <<sh>>
    /\ Len(gen.stack) = 1 /\ gen.stack[1].entry = se
    /\ entries[sh].kids = <<"e">>
    /\ contains(entries, she) /\ contains(entries, se)

\* C14: when completed set, delete and transform calls are interleaved with
\* the element requests of an enumeration in progress, after each of them
\* len() is the number of values set.
SizeHoldsDuringEnumeration ==
    (gen.st /= "none" /\ gen.dirty) =>
        /\ len(length) = Cardinality(Mapped(entries))
        /\ len(length) = Cardinality({p \in DOMAIN entries : has_value(entries[p])})

\* A delete has completed between two element requests of an enumeration.
SizeDuringEnumerationWitness ==
    /\ gen.st = "suspended" /\ gen.dirty
    /\ last.op = "del" /\ last.exc = ""
    /\ gen.out /= <<>> /\ gen.stack /= <<>>

\* The paths from the root to a key: its prefixes, itself included.
PathsOf(key) == {SubSeq(key, 1, n) : n \in 0 .. Len(key)}

\* C15: no call removes or unlinks an entry: delete only clears the value
\* of the entry it reaches and leaves every entry and edge in place, so the
\* set of paths only grows, and grows only in set and transform, by exactly
\* the missing prefixes of the key given.
EntriesAreNeverRemoved ==
    /\ [](\A p \in DOMAIN entries : \A i \in 1 .. Len(entries[p].kids) :
              Append(p, entries[p].kids[i]) \in DOMAIN entries)
    /\ [][IF last'.op \notin {"set", "transform", "del"}
          THEN entries' = entries
          ELSE /\ DOMAIN entries \subseteq DOMAIN entries'
               /\ \A p \in DOMAIN entries :
                      /\ Len(entries[p].kids) <= Len(entries'[p].kids)
                      /\ entries[p].kids = SubSeq(entries'[p].kids, 1, Len(entries[p].kids))
               /\ last'.op \in {"set", "transform"} =>
                      DOMAIN entries' = DOMAIN entries \cup PathsOf(last'.key)
               /\ last'.op = "del" =>
                      /\ DOMAIN entries' = DOMAIN entries
                      /\ \A p \in DOMAIN entries : entries'[p].kids = entries[p].kids
               /\ (last'.op = "del" /\ last'.exc = "") =>
                      entries' = [entries EXCEPT ![last'.key].slot = <<>>]
       ]_vars

\* A delete has left behind an entry without value and without children.
DeadEntryWitness ==
    /\ last.op = "del" /\ last.exc = "" /\ last.key /= <<>>
    /\ entries[last.key] = NewEntry

\* An entry below the root with no value at it or below it.
Dead(ents, p) == p /= <<>> /\ \A q \in Mapped(ents) : ~BeginsWith(q, p)

\* The tree without its dead entries: what pruning after delete would leave.
Pruned(ents) ==
    [p \in {q \in DOMAIN ents : ~Dead(ents, q)} |->
        LET Alive(char) == ~Dead(ents, Append(p, char))
        IN  [ents[p] EXCEPT !.kids = SelectSeq(@, Alive)]]

\* What holds of C16: get, contains, len and delete do not see dead entries.
DeadEntriesUnseenByLookups ==
    \A k \in KeySet \cup DOMAIN entries :
        /\ Lookup(entries, k) = Lookup(Pruned(entries), k)
        /\ contains(entries, k) = contains(Pruned(entries), k)
        /\ Cardinality(Mapped(Pruned(entries))) = len(length)
        /\ LET d == delitem(entries, length, k)
               e == delitem(Pruned(entries), length, k)
           IN  /\ d.exc = e.exc
               /\ d.len = e.len
               /\ \A j \in KeySet \cup DOMAIN entries : Lookup(d.ents, j) = Lookup(e.ents, j)

\* C16: dead entries are unobservable: a trie with dead entries and the
\* trie with the same mappings without them give the same outcome for get,
\* contains, len and delete, and the same results for keys/items under
\* every prefix.
DeadEntriesAreUnobservable ==
    /\ DeadEntriesUnseenByLookups
    /\ \A prefix \in KeySet \cup DOMAIN entries, outcome \in RaiseStopIterationOutcomes :
           LET a == items(entries, prefix, outcome)
               b == items(Pruned(entries), prefix, outcome)
           IN  /\ a.exc = b.exc
               /\ Range(a.out) = Range(b.out)
               /\ Range(keys(a.out)) = Range(keys(b.out))

\* C17: the empty sequence is a key, held in the root's value slot.  A set
\* of it succeeds and creates no entry; afterwards get gives the value and
\* len counts the key; an enumeration under the empty prefix yields the
\* pair (empty, v); while the empty key is unmapped, get and delete of it
\* raise KeyError; the root is always there.
EmptyKeyIsTheRootSlot ==
    /\ [](<<>> \in DOMAIN entries)
    /\ [][/\ (last'.op = "set" /\ last'.key = <<>>) =>
                /\ last'.exc = ""
                /\ DOMAIN entries' = DOMAIN entries
                /\ \A p \in DOMAIN entries : entries'[p].kids = entries[p].kids
                /\ Lookup(entries', <<>>) = Found(last'.arg[1])
                /\ entries'[<<>>].slot = last'.arg
                /\ <<>> \in Mapped(entries')
                /\ len(length') = Cardinality(Mapped(entries'))
                /\ len(length') = len(length) + (IF <<>> \in Mapped(entries) THEN 0 ELSE 1)
          /\ (/\ last'.op = "next"
              /\ gen.st = "created"
              /\ gen.prefix = <<>>
              /\ <<>> \in Mapped(entries)) =>
                /\ last'.exc = ""
                /\ last'.key = <<>>
                /\ last'.ret = entries[<<>>].slot
                /\ gen'.out = <<[key |-> <<>>, val |-> entries[<<>>].slot[1]]>>
          /\ (/\ last'.op \in {"get", "del"}
              /\ last'.key = <<>>
              /\ <<>> \notin Mapped(entries)) =>
                /\ last'.exc = "KeyError"
                /\ entries' = entries
                /\ length' = length
                /\ <<>> \in DOMAIN entries'
       ]_vars

\* The empty key was set next to other keys and is the first pair of an
\* enumeration of the whole trie.
EmptyKeyWitness ==
    /\ last.op = "next"
    /\ gen.prefix = <<>>
    /\ Len(gen.out) = 1
    /\ gen.out[1].key = <<>>
    /\ last.ret = entries[<<>>].slot
    /\ last.ret /= <<>>
    /\ Cardinality(DOMAIN entries) > 1
    /\ length = Cardinality(Mapped(entries))

\* C18: when set, delete and transform calls are made between the next()
\* calls of one enumeration, every pair the enumeration yields is mapped in
\* the trie at the moment it is yielded, and no key is yielded twice.
InterleavedEnumerationYieldsCurrentPairs ==
    /\ [](\A i, j \in 1 .. Len(gen.out) : i /= j => gen.out[i].key /= gen.out[j].key)
    /\ [][(last'.op = "next" /\ last'.ret /= <<>>) =>
             /\ last'.key \in Mapped(entries)
             /\ Lookup(entries, last'.key) = Found(last'.ret[1])
             /\ gen'.out = Append(gen.out, [key |-> last'.key, val |-> last'.ret[1]])
             /\ BeginsWith(last'.key, gen.prefix)
       ]_vars

\* A second pair is yielded after the trie was changed under the live
\* generator, and an entry on the generator's way has lost its value.
InterleavedWitness ==
    /\ gen.dirty
    /\ last.op = "next"
    /\ last.ret /= <<>>
    /\ Len(gen.out) >= 2
    /\ \E p \in DOMAIN entries :
           /\ BeginsWith(p, gen.prefix)
           /\ p \notin Mapped(entries)
           /\ p \notin Range(keys(gen.out))
           /\ BeginsWith(last.key, p)

\* C19: a transform whose value selector raises passes the exception on
\* and changes no mapping: get and contains of every key and len give what
\* they gave before the call, though entries for the key's path may have
\* been added.
FailedTransformChangesNoMapping ==
    [][(last'.op = "transform" /\ last'.exc /= "") =>
          /\ last'.exc = Apply(last'.sel, old_value(entries', last'.key, last'.arg[1])).exc
          /\ \A k \in KeySet \cup DOMAIN entries' :
                 /\ Lookup(entries', k) = Lookup(entries, k)
                 /\ contains(entries', k) = contains(entries, k)
          /\ Mapped(entries') = Mapped(entries)
          /\ len(length') = len(length)
          /\ DOMAIN entries \subseteq DOMAIN entries'
    ]_vars

\* The selector raised on a key that had no entry, and next to it there is
\* a mapped key: the path was added and holds no value.
FailedTransformWitness ==
    /\ last.op = "transform"
    /\ last.exc = "TypeError"
    /\ last.pre = "absent"
    /\ Status(entries, last.key) = "path"
    /\ length > 0

====
